---- MODULE Spec2Model ----
(***************************************************************************)
(* Leaderboard gateway (server.js) and its store (the leaderboard table,   *)
(* its CHECK constraints and the keep_best_score trigger).                 *)
(*                                                                         *)
(* A request value is a JavaScript value: a record with its typeof tag.    *)
(* A string is a sequence of one-character strings.  A number is           *)
(* int + frac/10 with 0 <= frac <= 9, so 1.5 is [int |-> 1, frac |-> 5].   *)
(***************************************************************************)
EXTENDS Integers, Sequences, FiniteSets, TLC

\* ---------------------------------------------------------------- bounds
MaxNameLen == 2        \* every string over Chars up to this length is a payload
MaxSteps == 3          \* requests handled in one behaviour of Spec
MaxRateSteps == 6      \* requests handled in one behaviour of SpecRate
MaxListSteps == 1      \* requests handled in one behaviour of SpecList
MaxValidSteps == 1     \* requests handled in one behaviour of SpecValid
MaxConcSteps == 3      \* submissions started in one behaviour of SpecConc
MaxTime == 1           \* ticks of the store's clock
MaxRows == 25          \* rows of the largest pre-filled table of SpecList

\* ------------------------------------------------------ program constants
NameMax == 20          \* name.trim().length>20
ScoreMax == 999999     \* score>999999
PageSize == 20         \* .limit(20)
GeneralMax == 300      \* rateLimit({ windowMs:15*60*1000, max:300 })
ScoreRouteMax == 5     \* rateLimit({ windowMs:60*1000, max:5 })
DbNameMax == 20        \* CHECK (char_length(name) BETWEEN 1 AND 20)
DbScoreMax == 999999   \* CHECK (score >= 0 AND score <= 999999)

Clients == {"c1", "c2"}
Chars == {"a", " ", "<"}

\* ------------------------------------------------------ JavaScript values
JsStr(s) == [type |-> "string", str |-> s, int |-> 0, frac |-> 0]
JsNum(i, f) == [type |-> "number", str |-> <<>>, int |-> i, frac |-> f]
JsBool(b) == [type |-> "boolean", str |-> <<>>, int |-> IF b THEN 1 ELSE 0, frac |-> 0]
JsUndefined == [type |-> "undefined", str |-> <<>>, int |-> 0, frac |-> 0]
JsNull == [type |-> "object", str |-> <<>>, int |-> 0, frac |-> 0]

\* !v
Falsy(v) ==
  CASE v.type = "undefined" -> TRUE
    [] v.type = "object" -> TRUE
    [] v.type = "string" -> v.str = <<>>
    [] v.type = "number" -> v.int = 0 /\ v.frac = 0
    [] v.type = "boolean" -> v.int = 0
    [] OTHER -> FALSE

RECURSIVE TrimStart(_)
TrimStart(s) ==
  IF s = <<>> THEN s
  ELSE IF Head(s) = " " THEN TrimStart(Tail(s)) ELSE s

RECURSIVE TrimEnd(_)
TrimEnd(s) ==
  IF s = <<>> THEN s
  ELSE IF s[Len(s)] = " " THEN TrimEnd(SubSeq(s, 1, Len(s) - 1)) ELSE s

\* String.prototype.trim
Trim(s) == TrimEnd(TrimStart(s))

IsAngle(c) == c \in {"<", ">"}

\* .replace(/[<>]/g,"")
StripAngles(s) == SelectSeq(s, LAMBDA c : ~IsAngle(c))

RECURSIVE Rep(_, _)
Rep(c, n) == IF n <= 0 THEN <<>> ELSE <<c>> \o Rep(c, n - 1)

\* ------------------------------------------------------------ validation
\* a faulty variant: the length is checked on the sanitized name
NameValidAfterStrip(name) ==
  /\ ~Falsy(name)
  /\ name.type = "string"
  /\ Len(StripAngles(Trim(name.str))) >= 1
  /\ Len(StripAngles(Trim(name.str))) <= NameMax

\* !name||typeof name!=="string"||name.trim().length<1||name.trim().length>20
NameValid(name) ==
  /\ ~Falsy(name)
  /\ name.type = "string"
  /\ Len(Trim(name.str)) >= 1
  /\ Len(Trim(name.str)) <= NameMax

\* Number.isInteger(score)
IsInteger(score) == score.frac = 0

\* typeof score!=="number"||!Number.isInteger(score)||score<0||score>999999
ScoreValid(score) ==
  /\ score.type = "number"
  /\ IsInteger(score)
  /\ ~(score.int < 0)
  /\ ~(score.int > ScoreMax \/ (score.int = ScoreMax /\ score.frac > 0))

\* name.trim().replace(/[<>]/g,"")
CleanName(name) == StripAngles(Trim(name.str))

\* ----------------------------------------------------------------- store
\* CHECK (char_length(name) BETWEEN 1 AND 20)
NameCheck(name) == Len(name) >= 1 /\ Len(name) <= DbNameMax

\* CHECK (score >= 0 AND score <= 999999)
ScoreCheck(score) == score >= 0 /\ score <= DbScoreMax

RowChecks(new) == NameCheck(new.name) /\ ScoreCheck(new.score)

\* a faulty variant: every other row of the name is deleted, whatever its score
TriggerDeletesOlder(visible, new) ==
  {r \in visible : r.name = new.name /\ r.id # new.id}

\* a faulty variant: a row of equal score is deleted too
TriggerDeletesLowerOrEqual(visible, new) ==
  {r \in visible : r.name = new.name /\ r.score <= new.score /\ r.id # new.id}

\* a faulty variant: the name is not compared
TriggerDeletesAnyName(visible, new) ==
  {r \in visible : r.score < new.score /\ r.id # new.id}

\* DELETE ... WHERE name = NEW.name AND score < NEW.score AND id != NEW.id,
\* over the rows the statement sees
TriggerDeletes(visible, new) ==
  {r \in visible : r.name = new.name /\ r.score < new.score /\ r.id # new.id}

\* the trigger function run on a table that already holds NEW
keep_best_score(tbl, new) == tbl \ TriggerDeletes(tbl, new)

\* AFTER INSERT ... FOR EACH ROW EXECUTE FUNCTION keep_best_score()
after_score_insert(tbl, new) == keep_best_score(tbl \cup {new}, new)

\* ORDER BY score DESC: r may come before q.  Rows of equal score come in
\* the order the plan yields them, here by id, one way or the other.
ComesBefore(r, q, tie) ==
  \/ r.score > q.score
  \/ /\ r.score = q.score
     /\ IF tie = "id_asc" THEN r.id <= q.id ELSE r.id >= q.id

\* .order("score",{ascending:false})
RECURSIVE OrderByScoreDesc(_, _)
OrderByScoreDesc(S, tie) ==
  IF S = {} THEN <<>>
  ELSE LET m == CHOOSE r \in S : \A q \in S : ComesBefore(r, q, tie)
       IN <<m>> \o OrderByScoreDesc(S \ {m}, tie)

\* a faulty variant: one row too many
LimitOffByOne(s, n) == SubSeq(s, 1, IF Len(s) < n + 1 THEN Len(s) ELSE n + 1)

\* .limit(n)
Limit(s, n) == SubSeq(s, 1, IF Len(s) < n THEN Len(s) ELSE n)

\* .limit(20) of GET /api/scores
TopScores(tbl, tie) == Limit(OrderByScoreDesc(tbl, tie), PageSize)

\* .select("score,name")
ScoreName(r) == [score |-> r.score, name |-> r.name]

\* .order("score",{ascending:false}).limit(1).single(): data, or null
\* (with an error) when no row comes back
TopOne(tbl, tie) ==
  IF tbl = {} THEN {} ELSE {ScoreName(OrderByScoreDesc(tbl, tie)[1])}

\* ------------------------------------------------------------------ state
VARIABLES
  rows,       \* public.leaderboard: the committed rows
  nextId,     \* the BIGSERIAL sequence of id
  now,        \* the store's clock, NOW()
  genHits,    \* hits of each client in the window of the /api/ limiter
  scoreHits,  \* hits of each client in the window of the /api/scores limiter
  txs,        \* the insert each client has in flight, if any
  resp,       \* the last response sent, with its request
  log,        \* the inserts committed so far, in commit order
  posts,      \* submissions of each client that reached the /api/scores
              \* limiter since its window began
  steps       \* requests handled so far

vars == <<rows, nextId, now, genHits, scoreHits, txs, resp, log, posts, steps>>

NoRow == [id |-> 0, name |-> <<>>, score |-> 0, created_at |-> 0]
IdleTx == [open |-> FALSE, row |-> NoRow, dels |-> {}, name |-> JsUndefined, score |-> JsUndefined]

Response(op, c) ==
  [op |-> op, client |-> c, status |-> 0, error |-> "", limited |-> "none",
   name |-> JsUndefined, score |-> JsUndefined, entry |-> {}, scores |-> <<>>,
   total |-> 0, high |-> {}, calls |-> 0, q1 |-> "none", q2 |-> "none",
   nth |-> 0, before |-> rows]

\* ---------------------------------------------------------- rate limiting
\* app.use("/api/", rateLimit({ windowMs:15*60*1000, max:300 }))
GeneralOver(c) == genHits[c] + 1 > GeneralMax

\* app.use("/api/scores", rateLimit({ windowMs:60*1000, max:5 }))
ScoresOver(c) == scoreHits[c] + 1 > ScoreRouteMax

\* the path the second limiter is mounted on: every method of /api/scores
UnderScoresLimiter(path) == path = "/api/scores"

\* which limiter answers 429, if any: the first one ends the request
Gate(c, path) ==
  IF GeneralOver(c) THEN "general"
  ELSE IF UnderScoresLimiter(path) /\ ScoresOver(c) THEN "scores"
  ELSE "none"

\* each limiter the request reaches counts it
Count(c, path) ==
  /\ genHits' = [genHits EXCEPT ![c] = @ + 1]
  /\ scoreHits' = IF UnderScoresLimiter(path) /\ ~GeneralOver(c)
                    THEN [scoreHits EXCEPT ![c] = @ + 1]
                    ELSE scoreHits

TooMany(op, c, path) ==
  [Response(op, c) EXCEPT !.status = 429, !.limited = Gate(c, path),
                          !.error = "Too many requests, please try again later."]

\* the window of a limiter ends for a client
GeneralWindowExpire(c) ==
  /\ genHits[c] > 0
  /\ genHits' = [genHits EXCEPT ![c] = 0]
  /\ UNCHANGED <<rows, nextId, now, scoreHits, txs, resp, log, posts, steps>>

ScoreWindowExpire(c) ==
  /\ scoreHits[c] > 0
  /\ scoreHits' = [scoreHits EXCEPT ![c] = 0]
  /\ posts' = [posts EXCEPT ![c] = 0]
  /\ UNCHANGED <<rows, nextId, now, genHits, txs, resp, log, steps>>

Tick ==
  /\ now < MaxTime
  /\ now' = now + 1
  /\ UNCHANGED <<rows, nextId, genHits, scoreHits, txs, resp, log, posts, steps>>

\* --------------------------------------------------------------- handlers
\* What a call of the store client does: it resolves with data ("ok"),
\* resolves with an error object and null data ("error"), or rejects ("throw").
\* A statement the store refuses for a CHECK resolves with an error object,
\* recorded as "constraint".
Outcomes == {"ok", "error", "throw"}
TieOrders == {"id_asc", "id_desc"}

\* app.get("/api/scores")
GetScores(c, out, tie) ==
  /\ steps' = steps + 1
  /\ Count(c, "/api/scores")
  /\ resp' =
       IF Gate(c, "/api/scores") # "none" THEN TooMany("GET_scores", c, "/api/scores")
       ELSE IF out = "ok"
         THEN [Response("GET_scores", c) EXCEPT !.status = 200, !.calls = 1, !.q1 = out,
                                                !.scores = TopScores(rows, tie)]
         ELSE [Response("GET_scores", c) EXCEPT !.status = 500, !.calls = 1, !.q1 = out,
                                                !.error = "Could not fetch scores"]
  /\ UNCHANGED <<rows, nextId, now, txs, log, posts>>

NewRow(name, score) ==
  [id |-> nextId, name |-> CleanName(name), score |-> score.int, created_at |-> now]

Request(op, c, name, score) ==
  [Response(op, c) EXCEPT !.name = name, !.score = score, !.nth = posts[c] + 1]

\* the en dash of the message "Name must be 1-20 characters" is written '-'
BadName(c, name, score) ==
  [Request("POST_scores", c, name, score) EXCEPT
     !.status = 400, !.error = "Name must be 1-20 characters"]

BadScore(c, name, score) ==
  [Request("POST_scores", c, name, score) EXCEPT
     !.status = 400, !.error = "Invalid score"]

NotSaved(c, name, score, out) ==
  [Request("POST_scores", c, name, score) EXCEPT
     !.status = 500, !.calls = 1, !.q1 = out, !.error = "Could not save score"]

Created(c, name, score, row) ==
  [Request("POST_scores", c, name, score) EXCEPT
     !.status = 201, !.calls = 1, !.q1 = "ok", !.entry = {row}]

LogEntry(row) == [id |-> row.id, name |-> row.name, score |-> row.score]

\* app.post("/api/scores"), the insert and its trigger settled before the
\* next request is handled
PostScores(c, name, score, out) ==
  /\ steps' = steps + 1
  /\ Count(c, "/api/scores")
  /\ posts' = IF GeneralOver(c) THEN posts ELSE [posts EXCEPT ![c] = @ + 1]
  /\ UNCHANGED <<now, txs>>
  /\ IF Gate(c, "/api/scores") # "none"
       THEN /\ resp' = [TooMany("POST_scores", c, "/api/scores") EXCEPT
                          !.name = name, !.score = score, !.nth = posts[c] + 1]
            /\ UNCHANGED <<rows, nextId, log>>
     ELSE IF ~NameValid(name)
       THEN /\ resp' = BadName(c, name, score)
            /\ UNCHANGED <<rows, nextId, log>>
     ELSE IF ~ScoreValid(score)
       THEN /\ resp' = BadScore(c, name, score)
            /\ UNCHANGED <<rows, nextId, log>>
     ELSE IF out # "ok"
       THEN /\ resp' = NotSaved(c, name, score, out)
            /\ UNCHANGED <<rows, nextId, log>>
     ELSE IF ~RowChecks(NewRow(name, score))
       THEN /\ resp' = NotSaved(c, name, score, "constraint")
            /\ nextId' = nextId + 1
            /\ UNCHANGED <<rows, log>>
     ELSE /\ resp' = Created(c, name, score, NewRow(name, score))
          /\ nextId' = nextId + 1
          /\ rows' = after_score_insert(rows, NewRow(name, score))
          /\ log' = Append(log, LogEntry(NewRow(name, score)))

\* app.get("/api/stats"): neither result's error is read
GetStats(c, out1, out2, tie) ==
  /\ steps' = steps + 1
  /\ Count(c, "/api/stats")
  /\ resp' =
       IF Gate(c, "/api/stats") # "none" THEN TooMany("GET_stats", c, "/api/stats")
       ELSE IF out1 = "throw"
         THEN [Response("GET_stats", c) EXCEPT !.status = 500, !.calls = 1, !.q1 = out1,
                                               !.error = "Stats unavailable"]
       ELSE IF out2 = "throw"
         THEN [Response("GET_stats", c) EXCEPT !.status = 500, !.calls = 2, !.q1 = out1,
                                               !.q2 = out2, !.error = "Stats unavailable"]
       ELSE [Response("GET_stats", c) EXCEPT
               !.status = 200, !.calls = 2, !.q1 = out1, !.q2 = out2,
               !.total = IF out1 = "ok" THEN Cardinality(rows) ELSE 0,
               !.high = IF out2 = "ok" THEN TopOne(rows, tie) ELSE {}]
  /\ UNCHANGED <<rows, nextId, now, txs, log, posts>>

\* INSERT by a client holding the anonymous key ("public_insert_score"),
\* past the gateway
DirectInsert(name, score) ==
  LET new == [id |-> nextId, name |-> name, score |-> score, created_at |-> now] IN
  /\ steps' = steps + 1
  /\ nextId' = nextId + 1
  /\ UNCHANGED <<now, genHits, scoreHits, txs, posts>>
  /\ IF RowChecks(new)
       THEN /\ rows' = after_score_insert(rows, new)
            /\ log' = Append(log, LogEntry(new))
            /\ resp' = [Response("INSERT", "store") EXCEPT
                          !.status = 201, !.name = JsStr(name), !.score = JsNum(score, 0),
                          !.entry = {new}]
       ELSE /\ UNCHANGED <<rows, log>>
            /\ resp' = [Response("INSERT", "store") EXCEPT
                          !.status = 500, !.name = JsStr(name), !.score = JsNum(score, 0)]

\* app.post("/api/scores") up to its await: the INSERT runs in a
\* transaction of its own, the trigger's DELETE sees the committed rows and
\* the new one
PostBegin(c, name, score, out) ==
  /\ ~txs[c].open
  /\ steps' = steps + 1
  /\ Count(c, "/api/scores")
  /\ posts' = IF GeneralOver(c) THEN posts ELSE [posts EXCEPT ![c] = @ + 1]
  /\ UNCHANGED <<now, rows, log>>
  /\ IF Gate(c, "/api/scores") # "none"
       THEN /\ resp' = [TooMany("POST_scores", c, "/api/scores") EXCEPT
                          !.name = name, !.score = score, !.nth = posts[c] + 1]
            /\ UNCHANGED <<nextId, txs>>
     ELSE IF ~NameValid(name)
       THEN /\ resp' = BadName(c, name, score)
            /\ UNCHANGED <<nextId, txs>>
     ELSE IF ~ScoreValid(score)
       THEN /\ resp' = BadScore(c, name, score)
            /\ UNCHANGED <<nextId, txs>>
     ELSE IF out # "ok"
       THEN /\ resp' = NotSaved(c, name, score, out)
            /\ UNCHANGED <<nextId, txs>>
     ELSE IF ~RowChecks(NewRow(name, score))
       THEN /\ resp' = NotSaved(c, name, score, "constraint")
            /\ nextId' = nextId + 1
            /\ UNCHANGED txs
     ELSE /\ nextId' = nextId + 1
          /\ txs' = [txs EXCEPT ![c] =
                       [open |-> TRUE, row |-> NewRow(name, score),
                        dels |-> TriggerDeletes(rows \cup {NewRow(name, score)},
                                                NewRow(name, score)),
                        name |-> name, score |-> score]]
          /\ UNCHANGED resp

\* the transaction commits and the handler answers
PostCommit(c) ==
  /\ txs[c].open
  /\ rows' = (rows \cup {txs[c].row}) \ txs[c].dels
  /\ log' = Append(log, LogEntry(txs[c].row))
  /\ resp' = Created(c, txs[c].name, txs[c].score, txs[c].row)
  /\ txs' = [txs EXCEPT ![c] = IdleTx]
  /\ UNCHANGED <<nextId, now, genHits, scoreHits, posts, steps>>

\* ------------------------------------------------------------ the inputs
Strings(n) == UNION {[1..k -> Chars] : k \in 0..n}

\* names around the limit of 20 characters
LongNames ==
  {Rep("a", NameMax), Rep("a", NameMax + 1),
   <<" ">> \o Rep("a", NameMax) \o <<" ">>,
   Rep("<", NameMax), <<"<">> \o Rep("a", NameMax)}

\* names with '>'
AngleNames == {<<">">>, <<"<", ">">>, <<"<", "a", ">">>, <<">", " ", "a">>}

NameInputs ==
  {JsStr(s) : s \in Strings(MaxNameLen) \cup LongNames \cup AngleNames}
    \cup {JsUndefined, JsNull, JsNum(0, 0), JsNum(7, 0), JsBool(TRUE)}

ScoreInputs ==
  {JsNum(i, f) : i \in {-1, 0, ScoreMax, ScoreMax + 1}, f \in {0, 5}}
    \cup {JsStr(<<"a">>), JsUndefined}

FewNames == {JsStr(<<"a">>), JsStr(<<"<", "a", "a">>)}
FewScores == {JsNum(1, 0), JsNum(2, 0), JsNum(-1, 0)}
StoredNames == {<<"a">>, <<"a", "a">>}
StoredScores == {1, 2}

\* ------------------------------------------------------ the specifications
\* A table that already holds rows: n rows of n different names, the score
\* of row i being (i * m) % k, and the inserts that made it.
NameOf(i) == IF i <= NameMax THEN Rep("a", i) ELSE Rep("b", i - NameMax)

ScorePatterns == {<<0, 1>>, <<1, 30>>, <<7, 10>>, <<29, 30>>, <<1, 2>>}

Table(n, pat) ==
  {[id |-> i, name |-> NameOf(i), score |-> (i * pat[1]) % pat[2], created_at |-> 0] :
     i \in 1..n}

TableLog(n, pat) ==
  [i \in 1..n |-> [id |-> i, name |-> NameOf(i), score |-> (i * pat[1]) % pat[2]]]

NoHits == [c \in Clients |-> 0]

Init ==
  /\ rows = {}
  /\ nextId = 1
  /\ now = 0
  /\ genHits = NoHits
  /\ scoreHits = NoHits
  /\ txs = [c \in Clients |-> IdleTx]
  /\ resp = [Response("none", "none") EXCEPT !.before = {}]
  /\ log = <<>>
  /\ posts = NoHits
  /\ steps = 0

\* The gateway and the store, one request at a time: both clients submit,
\* one of them reads.
Readers == {"c1"}

Next ==
  \/ /\ steps < MaxSteps
     /\ \E c \in Readers, out \in Outcomes, tie \in TieOrders : GetScores(c, out, tie)
  \/ /\ steps < MaxSteps
     /\ \E c \in Clients, name \in FewNames, score \in FewScores, out \in {"ok", "error"} :
          PostScores(c, name, score, out)
  \/ /\ steps < MaxSteps
     /\ \E c \in Readers, out1 \in Outcomes, out2 \in Outcomes :
          GetStats(c, out1, out2, "id_asc")
  \/ /\ steps < MaxSteps
     /\ \E name \in StoredNames, score \in StoredScores : DirectInsert(name, score)
  \/ Tick

Spec == Init /\ [][Next]_vars

\* Submissions with every payload of NameInputs and ScoreInputs, to a table
\* of 0 to 2 rows.
InitValid ==
  /\ \E n \in 0..2 :
       /\ rows = Table(n, <<1, 2>>)
       /\ nextId = n + 1
       /\ resp = [Response("none", "none") EXCEPT !.before = Table(n, <<1, 2>>)]
       /\ log = TableLog(n, <<1, 2>>)
  /\ now = 0
  /\ genHits = NoHits
  /\ scoreHits = NoHits
  /\ txs = [c \in Clients |-> IdleTx]
  /\ posts = NoHits
  /\ steps = 0

NextValid ==
  /\ steps < MaxValidSteps
  /\ \E name \in NameInputs, score \in ScoreInputs, out \in {"ok", "error"} :
       PostScores("c1", name, score, out)

SpecValid == InitValid /\ [][NextValid]_vars

\* The rate limiters: a client may already have used most of the general
\* window, through any routes under /api/.
InitRate ==
  /\ rows = {}
  /\ nextId = 1
  /\ now = 0
  /\ genHits \in [Clients -> {0, GeneralMax - 1}]
  /\ scoreHits = NoHits
  /\ txs = [c \in Clients |-> IdleTx]
  /\ resp = [Response("none", "none") EXCEPT !.before = {}]
  /\ log = <<>>
  /\ posts = NoHits
  /\ steps = 0

NextRate ==
  \/ /\ steps < MaxRateSteps
     /\ \E c \in Clients : GetScores(c, "ok", "id_asc")
  \/ /\ steps < MaxRateSteps
     /\ \E c \in Clients, score \in {JsNum(1, 0), JsNum(-1, 0)} :
          PostScores(c, JsStr(<<"a">>), score, "ok")
  \/ /\ steps < MaxRateSteps
     /\ \E c \in Clients : GetStats(c, "ok", "ok", "id_asc")
  \/ \E c \in Clients : ScoreWindowExpire(c)
  \/ \E c \in Clients : GeneralWindowExpire(c)

SpecRate == InitRate /\ [][NextRate]_vars

\* The same without reads of the scores: C7_SixthSubmissionRejected holds of it.
NextSubmitOnly ==
  \/ /\ steps < MaxRateSteps
     /\ \E c \in Clients, score \in {JsNum(1, 0), JsNum(-1, 0)} :
          PostScores(c, JsStr(<<"a">>), score, "ok")
  \/ /\ steps < MaxRateSteps
     /\ \E c \in Clients : GetStats(c, "ok", "ok", "id_asc")
  \/ \E c \in Clients : ScoreWindowExpire(c)
  \/ \E c \in Clients : GeneralWindowExpire(c)

SpecSubmitOnly == InitRate /\ [][NextSubmitOnly]_vars

InitList ==
  /\ \E n \in 0..MaxRows, pat \in ScorePatterns :
       /\ rows = Table(n, pat)
       /\ nextId = n + 1
       /\ resp = [Response("none", "none") EXCEPT !.before = Table(n, pat)]
       /\ log = TableLog(n, pat)
  /\ now = 0
  /\ genHits = NoHits
  /\ scoreHits = NoHits
  /\ txs = [c \in Clients |-> IdleTx]
  /\ posts = NoHits
  /\ steps = 0

NextList ==
  \/ /\ steps < MaxListSteps
     /\ \E c \in Clients, out \in Outcomes, tie \in TieOrders : GetScores(c, out, tie)
  \/ /\ steps < MaxListSteps
     /\ \E c \in Clients, tie \in TieOrders : GetStats(c, "ok", "ok", tie)

SpecList == InitList /\ [][NextList]_vars

\* Submissions of several clients in flight at once.
NextConc ==
  \/ /\ steps < MaxConcSteps
     /\ \E c \in Clients, name \in FewNames, score \in FewScores, out \in {"ok", "error"} :
          PostBegin(c, name, score, out)
  \/ \E c \in Clients : PostCommit(c)
  \/ Tick

SpecConc == Init /\ [][NextConc]_vars

\* --------------------------------------------------------- the properties
RowsOf(n) == {r \in rows : r.name = n}
LogOf(n) == SelectSeq(log, LAMBDA e : e.name = n)
LoggedNames == {log[i].name : i \in 1..Len(log)}
Key(r) == [id |-> r.id, name |-> r.name, score |-> r.score]
Posted == resp.op = "POST_scores" /\ resp.limited = "none"
Min(a, b) == IF a < b THEN a ELSE b
Elems(q) == {q[i] : i \in 1..Len(q)}

\* the specification's reading of a valid name and a valid score
SpecNameOk(v) ==
  v.type = "string" /\ Len(Trim(v.str)) >= 1 /\ Len(Trim(v.str)) <= NameMax
SpecScoreOk(v) ==
  v.type = "number" /\ v.frac = 0 /\ v.int >= 0 /\ v.int <= ScoreMax

\* C1: from a store with no row for n, two successful inserts for n in a
\* row: (n, a) then (n, b) with a < b leave exactly one row for n, the one
\* with score b; with a > b they leave two rows for n, scores a and b.
C1_OrderAsymmetry ==
  \A n \in LoggedNames :
    Len(LogOf(n)) = 2 =>
      LET a == LogOf(n)[1]
          b == LogOf(n)[2]
      IN /\ a.score < b.score => {Key(r) : r \in RowsOf(n)} = {b}
         /\ a.score > b.score =>
              /\ {Key(r) : r \in RowsOf(n)} = {a, b}
              /\ Cardinality(RowsOf(n)) = 2

\* C1 witness: a gateway submission was the second one for its name and
\* scored lower than the first, and both rows are in the table.
C1_Witness ==
  /\ Posted /\ resp.status = 201
  /\ \E r \in resp.entry :
       /\ Len(LogOf(r.name)) = 2
       /\ LogOf(r.name)[2].id = r.id
       /\ LogOf(r.name)[1].score > r.score
       /\ Cardinality(RowsOf(r.name)) = 2

\* C2: for every name, at most one row holds the highest score that name
\* has achieved.
C2_AtMostOneBestRow ==
  \A n \in LoggedNames :
    LET achieved == {e.score : e \in Elems(LogOf(n))}
        best == CHOOSE s \in achieved : \A t \in achieved : t <= s
    IN Cardinality({r \in RowsOf(n) : r.score = best}) <= 1

\* C2 as amended: the rows holding the highest score a name has achieved
\* are exactly the rows of the inserts that achieved it, one per insert.
C2_BestRowsAreBestInserts ==
  \A n \in LoggedNames :
    LET achieved == {e.score : e \in Elems(LogOf(n))}
        best == CHOOSE s \in achieved : \A t \in achieved : t <= s
    IN {Key(r) : r \in {q \in RowsOf(n) : q.score = best}}
         = {e \in Elems(LogOf(n)) : e.score = best}

\* C2 witness: a name's highest score was inserted twice and both rows are
\* in the table.
C2_Witness ==
  \E r \in rows : \E q \in rows :
    /\ r.name = q.name /\ r.id # q.id /\ r.score = q.score
    /\ \A e \in Elems(LogOf(r.name)) : e.score <= r.score

\* C3: a submission with a valid name and a valid score, the store
\* reachable, is answered 201 with the entry created, and exactly one row
\* was inserted: the trimmed name without '<' and '>', and the score.
C3_ValidIsCreated ==
  (/\ Posted
   /\ SpecNameOk(resp.name) /\ SpecScoreOk(resp.score)
   /\ resp.q1 \notin {"error", "throw"})
  => /\ resp.status = 201
     /\ Cardinality(resp.entry) = 1
     /\ \A e \in resp.entry :
          /\ e.name = StripAngles(Trim(resp.name.str))
          /\ e.score = resp.score.int
          /\ e \in rows
          /\ \A r \in resp.before : r.id # e.id
          /\ rows \ resp.before = {e}

\* C4: a submission with an invalid name or an invalid score is answered
\* 400, without a store call and with the table as it was; the name error
\* is the one reported when the name is invalid.
C4_InvalidIsRejected ==
  (Posted /\ (~SpecNameOk(resp.name) \/ ~SpecScoreOk(resp.score)))
  => /\ resp.status = 400
     /\ resp.calls = 0
     /\ resp.entry = {}
     /\ rows = resp.before
     /\ resp.error = IF ~SpecNameOk(resp.name)
                       THEN "Name must be 1-20 characters"
                       ELSE "Invalid score"

\* C4 witness: a request with both an invalid name and an invalid score
\* was answered with the name error.
C4_Witness ==
  /\ Posted
  /\ ~SpecNameOk(resp.name) /\ ~SpecScoreOk(resp.score)
  /\ resp.status = 400
  /\ resp.error = "Name must be 1-20 characters"

\* C5: a successful read of the scores returns min(N, 20) of the N stored
\* rows, in non-increasing order of score, and no row left out scores
\* higher than a row returned.
C5_TopTwenty ==
  (resp.op = "GET_scores" /\ resp.status = 200)
  => LET got == resp.scores IN
     /\ Len(got) = Min(Cardinality(resp.before), PageSize)
     /\ Elems(got) \subseteq resp.before
     /\ Cardinality(Elems(got)) = Len(got)
     /\ \A i \in 1..Len(got) : \A j \in 1..Len(got) :
          i < j => got[i].score >= got[j].score
     /\ \A r \in resp.before \ Elems(got) : \A q \in Elems(got) :
          r.score <= q.score

\* C5 witness: a read of a table of 25 rows returned 20 of them, and a row
\* left out ties with a row returned.
C5_Witness ==
  /\ resp.op = "GET_scores" /\ resp.status = 200
  /\ Cardinality(resp.before) = PageSize + 5
  /\ Len(resp.scores) = PageSize
  /\ \E r \in resp.before \ Elems(resp.scores) :
       r.score = resp.scores[PageSize].score

\* C6: when either query of GetStats fails, the answer is 500.
C6_StatsFailureIsUnavailable ==
  (/\ resp.op = "GET_stats" /\ resp.limited = "none"
   /\ (resp.q1 \in {"error", "throw"} \/ resp.q2 \in {"error", "throw"}))
  => resp.status = 500

\* C7: of the submissions of a client within one window of the
\* /api/scores limiter, the first 5 reach the handler and the 6th is
\* rejected by that limiter before validation and any store call (the
\* general ceiling aside).
C7_SixthSubmissionRejected ==
  (resp.op = "POST_scores" /\ resp.limited # "general")
  => /\ resp.nth <= ScoreRouteMax => resp.limited = "none"
     /\ resp.nth = ScoreRouteMax + 1 =>
          /\ resp.limited = "scores"
          /\ resp.status = 429
          /\ resp.calls = 0

\* C8: reads of the scores neither use the submission budget nor are
\* rejected by it: the hits counted against it are submissions only.
C8_ReadsOutsideSubmissionBudget ==
  /\ \A c \in Clients : scoreHits[c] <= posts[c]
  /\ resp.op = "GET_scores" => resp.limited # "scores"

\* C9: a successful insert of (n, s) removes only rows of name n with a
\* score below s and keeps every other row and the new one; no operation
\* changes a field of a row or removes a row otherwise.
C9_Frame ==
  /\ \A r \in rows : \A q \in resp.before : r.id = q.id => r = q
  /\ rows \ resp.before \subseteq resp.entry
  /\ resp.status # 201 => rows = resp.before
  /\ resp.status = 201 =>
       \A e \in resp.entry :
         /\ e \in rows
         /\ e \notin resp.before
         /\ \A r \in resp.before \ rows : r.name = e.name /\ r.score < e.score
         /\ \A r \in resp.before : (r.name # e.name \/ r.score >= e.score) => r \in rows

\* C9 witness: a gateway submission removed a lower row of its name and
\* left a row of another name in place.
C9_Witness ==
  /\ Posted /\ resp.status = 201
  /\ \E e \in resp.entry :
       /\ \E r \in resp.before \ rows : r.name = e.name
       /\ \E r \in resp.before \cap rows : r.name # e.name

\* C10: with no submission in flight, of two rows of one name the one
\* inserted later does not score higher.
C10_NoLowerRowSurvives ==
  (\A c \in Clients : ~txs[c].open)
  => \A r \in rows : \A q \in rows :
       (r.name = q.name /\ r.id < q.id) => q.score <= r.score

====
